---- MODULE Spec2Model ----
(***************************************************************************)
(* The payment-method selector of the checkout: PaymentMethodComponent,    *)
(* its props mapper mapToWithCheckoutPaymentMethodProps, and the wrapper    *)
(* withCheckout(mapToWithCheckoutPaymentMethodProps)(memo(...)) that        *)
(* renders it again whenever the parent's props or the checkout state       *)
(* change.                                                                  *)
(***************************************************************************)
EXTENDS Integers, Sequences, FiniteSets, TLC

(***************************************************************************)
(* Bounds of the model: how many identifiers / gateways that the selector   *)
(* names nowhere are part of the input domain.                              *)
(***************************************************************************)
MaxOtherIds == 1
MaxOtherGateways == 1

(***************************************************************************)
(* The enums the selector compares against.  Their members are distinct     *)
(* string constants; each member is modelled by a string of its own.        *)
(***************************************************************************)
PaymentMethodId ==
    [ Afterpay                  |-> "afterpay",
      AmazonPay                 |-> "amazonpay",
      Braintree                 |-> "braintree",
      BraintreeVenmo            |-> "braintreevenmo",
      CCAvenueMars              |-> "ccavenuemars",
      ChasePay                  |-> "chasepay",
      Checkoutcom               |-> "checkoutcom",
      Clearpay                  |-> "clearpay",
      Humm                      |-> "humm",
      Laybuy                    |-> "laybuy",
      Masterpass                |-> "masterpass",
      Moneris                   |-> "moneris",
      Opy                       |-> "opy",
      PaypalCommerceCreditCards |-> "paypalcommercecreditcards",
      PaypalExpress             |-> "paypalexpress",
      PaypalPaymentsPro         |-> "paypal",
      Quadpay                   |-> "quadpay",
      Sezzle                    |-> "sezzle",
      SquareV2                  |-> "squarev2",
      StripeUPE                 |-> "stripeupe",
      StripeV3                  |-> "stripev3",
      WorldpayAccess            |-> "worldpayaccess",
      Zip                       |-> "zip" ]

PaymentMethodProviderType ==
    [ Api    |-> "PAYMENT_TYPE_API",
      Hosted |-> "PAYMENT_TYPE_HOSTED",
      PPSDK  |-> "PAYMENT_TYPE_SDK" ]

PaymentMethodType ==
    [ CreditCard   |-> "credit-card",
      Paypal       |-> "paypal",
      PaypalCredit |-> "paypal-credit" ]

\* The value of an absent optional property (gateway, isEmbedded, ...).
Undefined == "undefined"

\* What a component that renders nothing returns.
Null == [ type |-> "null" ]

(***************************************************************************)
(* The input domain of the descriptor's four fields.                        *)
(***************************************************************************)
\* ids the selector tests with method.id === PaymentMethodId.X
NamedIds ==
    { PaymentMethodId.SquareV2, PaymentMethodId.AmazonPay,
      PaymentMethodId.CCAvenueMars, PaymentMethodId.ChasePay,
      PaymentMethodId.Masterpass, PaymentMethodId.Braintree,
      PaymentMethodId.PaypalCommerceCreditCards, PaymentMethodId.PaypalExpress,
      PaymentMethodId.PaypalPaymentsPro, PaymentMethodId.Moneris,
      PaymentMethodId.WorldpayAccess, PaymentMethodId.BraintreeVenmo,
      PaymentMethodId.Humm, PaymentMethodId.Laybuy, PaymentMethodId.Quadpay,
      PaymentMethodId.Sezzle, PaymentMethodId.Zip, PaymentMethodId.Opy }

\* the two literal ids of the Checkoutcom decision
LiteralIds == { "credit_card", "card" }

\* ids the selector names nowhere
OtherIds == { "id_" \o ToString(i) : i \in 1..MaxOtherIds }

Ids == NamedIds \cup LiteralIds \cup OtherIds

\* gateways the selector tests with method.gateway === PaymentMethodId.X
NamedGateways ==
    { PaymentMethodId.StripeV3, PaymentMethodId.StripeUPE,
      PaymentMethodId.Checkoutcom, PaymentMethodId.Afterpay,
      PaymentMethodId.Clearpay }

OtherGateways == { "gateway_" \o ToString(i) : i \in 1..MaxOtherGateways }

\* method.gateway is optional
Gateways == { Undefined } \cup NamedGateways \cup OtherGateways

ProviderTypes ==
    { PaymentMethodProviderType.Api, PaymentMethodProviderType.Hosted,
      PaymentMethodProviderType.PPSDK, "PAYMENT_TYPE_OFFLINE" }

MethodTypes ==
    { PaymentMethodType.CreditCard, PaymentMethodType.Paypal,
      PaymentMethodType.PaypalCredit, "multi-option" }

\* PaymentMethod, restricted to the fields the selector and the mapper read
PaymentMethod ==
    [ id : Ids, gateway : Gateways, type : ProviderTypes, method : MethodTypes ]

(***************************************************************************)
(* React elements: <C {...props} /> is the pair of the component type and   *)
(* the props it is given.                                                   *)
(***************************************************************************)
createElement(type, props) == [ type |-> type, props |-> props ]

\* The payment-method components the selector imports.
ComponentTypes ==
    { "AmazonPayV2PaymentMethod", "BraintreeCreditCardPaymentMethod",
      "CCAvenueMarsPaymentMethod", "ChasePayPaymentMethod",
      "HostedCreditCardPaymentMethod", "HostedPaymentMethod",
      "MasterpassPaymentMethod", "MonerisPaymentMethod", "OpyPaymentMethod",
      "PaypalCommerceCreditCardPaymentMethod", "PaypalExpressPaymentMethod",
      "PaypalPaymentsProPaymentMethod", "PPSDKPaymentMethod",
      "SquarePaymentMethod", "StripePaymentMethod", "StripeUPEPaymentMethod",
      "WorldpayCreditCardPaymentMethod" }

(***************************************************************************)
(* PaymentMethodComponent is one chain of tests, each returning an element  *)
(* when it matches.  The chain is written here in segments, last segment    *)
(* first: every segment ends in the segment that follows it in the source.  *)
(***************************************************************************)

\* Mutant: the final `return null` is missing, the function returns undefined.
FallbackRule_NoFinalReturn(props) ==
    LET method == props.method IN
    IF \/ method.method = PaymentMethodType.CreditCard
       \/ method.type = PaymentMethodProviderType.Api
        THEN createElement("HostedCreditCardPaymentMethod", props)
    ELSE [ type |-> Undefined ]

\* Mutant: what no test matches is rendered by the generic hosted component.
FallbackRule_DefaultsToHosted(props) ==
    LET method == props.method IN
    IF \/ method.method = PaymentMethodType.CreditCard
       \/ method.type = PaymentMethodProviderType.Api
        THEN createElement("HostedCreditCardPaymentMethod", props)
    ELSE createElement("HostedPaymentMethod", props)

\* the last test and the final return
FallbackRule(props) ==
    LET method == props.method IN
    IF \/ method.method = PaymentMethodType.CreditCard
       \/ method.type = PaymentMethodProviderType.Api
        THEN createElement("HostedCreditCardPaymentMethod", props)
    ELSE Null

OpyRule(props) ==
    LET method == props.method IN
    IF method.id = PaymentMethodId.Opy
        THEN createElement("OpyPaymentMethod", props)
    ELSE FallbackRule(props)

\* Mutant: the hosted test forgets the PaypalCredit method.
IsHosted_NoPaypalCredit(method) ==
    \/ method.gateway = PaymentMethodId.Afterpay
    \/ method.gateway = PaymentMethodId.Clearpay
    \/ method.id = PaymentMethodId.BraintreeVenmo
    \/ method.id = PaymentMethodId.Humm
    \/ method.id = PaymentMethodId.Laybuy
    \/ method.id = PaymentMethodId.Quadpay
    \/ method.id = PaymentMethodId.Sezzle
    \/ method.id = PaymentMethodId.Zip
    \/ method.method = PaymentMethodType.Paypal
    \/ method.type = PaymentMethodProviderType.Hosted

\* the condition of the test that returns HostedPaymentMethod
IsHosted(method) ==
    \/ method.gateway = PaymentMethodId.Afterpay
    \/ method.gateway = PaymentMethodId.Clearpay
    \/ method.id = PaymentMethodId.BraintreeVenmo
    \/ method.id = PaymentMethodId.Humm
    \/ method.id = PaymentMethodId.Laybuy
    \/ method.id = PaymentMethodId.Quadpay
    \/ method.id = PaymentMethodId.Sezzle
    \/ method.id = PaymentMethodId.Zip
    \/ method.method = PaymentMethodType.Paypal
    \/ method.method = PaymentMethodType.PaypalCredit
    \/ method.type = PaymentMethodProviderType.Hosted

HostedRule(props) ==
    IF IsHosted(props.method)
        THEN createElement("HostedPaymentMethod", props)
    ELSE OpyRule(props)

\* Mutant: the PaypalPaymentsPro test does not look at the type.
LateIdRules_Unguarded(props) ==
    LET method == props.method IN
    IF method.id = PaymentMethodId.Masterpass
        THEN createElement("MasterpassPaymentMethod", props)
    ELSE IF method.id = PaymentMethodId.Braintree
        THEN createElement("BraintreeCreditCardPaymentMethod", props)
    ELSE IF method.id = PaymentMethodId.PaypalCommerceCreditCards
        THEN createElement("PaypalCommerceCreditCardPaymentMethod", props)
    ELSE IF method.id = PaymentMethodId.PaypalExpress
        THEN createElement("PaypalExpressPaymentMethod", props)
    ELSE IF method.id = PaymentMethodId.PaypalPaymentsPro
        THEN createElement("PaypalPaymentsProPaymentMethod", props)
    ELSE IF method.id = PaymentMethodId.Moneris
        THEN createElement("MonerisPaymentMethod", props)
    ELSE IF method.id = PaymentMethodId.WorldpayAccess
        THEN createElement("WorldpayCreditCardPaymentMethod", props)
    ELSE HostedRule(props)

\* the tests from Masterpass to WorldpayAccess
LateIdRules(props) ==
    LET method == props.method IN
    IF method.id = PaymentMethodId.Masterpass
        THEN createElement("MasterpassPaymentMethod", props)
    ELSE IF method.id = PaymentMethodId.Braintree
        THEN createElement("BraintreeCreditCardPaymentMethod", props)
    ELSE IF method.id = PaymentMethodId.PaypalCommerceCreditCards
        THEN createElement("PaypalCommerceCreditCardPaymentMethod", props)
    ELSE IF method.id = PaymentMethodId.PaypalExpress
        THEN createElement("PaypalExpressPaymentMethod", props)
    ELSE IF /\ method.type # PaymentMethodProviderType.Hosted
            /\ method.id = PaymentMethodId.PaypalPaymentsPro
        THEN createElement("PaypalPaymentsProPaymentMethod", props)
    ELSE IF method.id = PaymentMethodId.Moneris
        THEN createElement("MonerisPaymentMethod", props)
    ELSE IF method.id = PaymentMethodId.WorldpayAccess
        THEN createElement("WorldpayCreditCardPaymentMethod", props)
    ELSE HostedRule(props)

\* Mutant: the nested test knows the id "credit_card" only.
CheckoutcomRule_OnlyCreditCard(props) ==
    LET method == props.method IN
    IF method.gateway = PaymentMethodId.Checkoutcom
        THEN IF method.id = "credit_card"
                THEN createElement("HostedCreditCardPaymentMethod", props)
                ELSE createElement("HostedPaymentMethod", props)
    ELSE LateIdRules(props)

\* the test of the Checkoutcom gateway, with its nested test of the id
CheckoutcomRule(props) ==
    LET method == props.method IN
    IF method.gateway = PaymentMethodId.Checkoutcom
        THEN IF method.id = "credit_card" \/ method.id = "card"
                THEN createElement("HostedCreditCardPaymentMethod", props)
                ELSE createElement("HostedPaymentMethod", props)
    ELSE LateIdRules(props)

\* Mutant: the Stripe tests look at the id instead of the gateway.
EarlyIdRules_StripeById(props) ==
    LET method == props.method IN
    IF method.id = PaymentMethodId.SquareV2
        THEN createElement("SquarePaymentMethod", props)
    ELSE IF method.id = PaymentMethodId.StripeV3
        THEN createElement("StripePaymentMethod", props)
    ELSE IF method.id = PaymentMethodId.StripeUPE
        THEN createElement("StripeUPEPaymentMethod", props)
    ELSE IF method.id = PaymentMethodId.AmazonPay
        THEN createElement("AmazonPayV2PaymentMethod", props)
    ELSE IF method.id = PaymentMethodId.CCAvenueMars
        THEN createElement("CCAvenueMarsPaymentMethod", props)
    ELSE IF method.id = PaymentMethodId.ChasePay
        THEN createElement("ChasePayPaymentMethod", props)
    ELSE CheckoutcomRule(props)

\* the tests from SquareV2 to ChasePay
EarlyIdRules(props) ==
    LET method == props.method IN
    IF method.id = PaymentMethodId.SquareV2
        THEN createElement("SquarePaymentMethod", props)
    ELSE IF method.gateway = PaymentMethodId.StripeV3
        THEN createElement("StripePaymentMethod", props)
    ELSE IF method.gateway = PaymentMethodId.StripeUPE
        THEN createElement("StripeUPEPaymentMethod", props)
    ELSE IF method.id = PaymentMethodId.AmazonPay
        THEN createElement("AmazonPayV2PaymentMethod", props)
    ELSE IF method.id = PaymentMethodId.CCAvenueMars
        THEN createElement("CCAvenueMarsPaymentMethod", props)
    ELSE IF method.id = PaymentMethodId.ChasePay
        THEN createElement("ChasePayPaymentMethod", props)
    ELSE CheckoutcomRule(props)

\* Mutant: the PPSDK test comes after the SquareV2 test.
PaymentMethodComponent_PPSDKSecond(props) ==
    LET method == props.method IN
    IF method.id = PaymentMethodId.SquareV2
        THEN createElement("SquarePaymentMethod", props)
    ELSE IF method.type = PaymentMethodProviderType.PPSDK
        THEN createElement("PPSDKPaymentMethod", props)
    ELSE EarlyIdRules(props)

\* Mutant: the credit-card test is not done last but right after PPSDK.
PaymentMethodComponent_CreditCardEarly(props) ==
    LET method == props.method IN
    IF method.type = PaymentMethodProviderType.PPSDK
        THEN createElement("PPSDKPaymentMethod", props)
    ELSE IF \/ method.method = PaymentMethodType.CreditCard
            \/ method.type = PaymentMethodProviderType.Api
        THEN createElement("HostedCreditCardPaymentMethod", props)
    ELSE EarlyIdRules(props)

\* Mutant: nothing is rendered while the payment is initializing.
PaymentMethodComponent_HiddenWhileInitializing(props) ==
    LET method == props.method IN
    IF props.isInitializing
        THEN Null
    ELSE IF method.type = PaymentMethodProviderType.PPSDK
        THEN createElement("PPSDKPaymentMethod", props)
    ELSE EarlyIdRules(props)

PaymentMethodComponent(props) ==
    LET method == props.method IN
    IF method.type = PaymentMethodProviderType.PPSDK
        THEN createElement("PPSDKPaymentMethod", props)
    ELSE EarlyIdRules(props)

\* The callbacks of its props that the body of PaymentMethodComponent calls:
\* it calls none, it only spreads the props into the element.
CallbacksInvoked(props) == {}

(***************************************************************************)
(* The checkout context: the service's four lifecycle methods, and the      *)
(* state's query "is the payment of method X initializing".                 *)
(***************************************************************************)
checkoutService ==
    [ deinitializeCustomer |-> "checkoutService.deinitializeCustomer",
      deinitializePayment  |-> "checkoutService.deinitializePayment",
      initializeCustomer   |-> "checkoutService.initializeCustomer",
      initializePayment    |-> "checkoutService.initializePayment" ]

\* No payment is initializing.
NoMethod == "none"

\* The id whose payment the checkout state can report as initializing.
InitializingIds == { PaymentMethodId.Braintree }

\* checkoutState.statuses.isInitializingPayment(methodId), checkoutState
\* being the id whose payment is initializing (or NoMethod).
isInitializingPayment(checkoutState, methodId) == checkoutState = methodId

\* Mutant: isInitializingPayment is asked without the id of the method.
mapToWithCheckoutPaymentMethodProps_AnyMethod(service, checkoutState, ownProps) ==
    [ deinitializeCustomer |-> service.deinitializeCustomer,
      deinitializePayment  |-> service.deinitializePayment,
      initializeCustomer   |-> service.initializeCustomer,
      initializePayment    |-> service.initializePayment,
      isInitializing       |-> checkoutState # NoMethod ]

mapToWithCheckoutPaymentMethodProps(service, checkoutState, ownProps) ==
    [ deinitializeCustomer |-> service.deinitializeCustomer,
      deinitializePayment  |-> service.deinitializePayment,
      initializeCustomer   |-> service.initializeCustomer,
      initializePayment    |-> service.initializePayment,
      isInitializing       |-> isInitializingPayment(checkoutState, ownProps.method.id) ]

\* PaymentMethodProps: the props the parent gives
PaymentMethodProps ==
    [ method               : PaymentMethod,
      isEmbedded           : BOOLEAN,
      isUsingMultiShipping : BOOLEAN,
      onUnhandledError     : { Undefined, "onUnhandledError" },
      submitForm           : { Undefined, "submitForm" } ]

\* withCheckout(mapper): the wrapped component gets the parent's props
\* together with the mapped ones.
withCheckout(service, checkoutState, ownProps) ==
    LET mapped == mapToWithCheckoutPaymentMethodProps(service, checkoutState, ownProps)
    IN  [ method               |-> ownProps.method,
          isEmbedded           |-> ownProps.isEmbedded,
          isUsingMultiShipping |-> ownProps.isUsingMultiShipping,
          onUnhandledError     |-> ownProps.onUnhandledError,
          submitForm           |-> ownProps.submitForm,
          deinitializeCustomer |-> mapped.deinitializeCustomer,
          deinitializePayment  |-> mapped.deinitializePayment,
          initializeCustomer   |-> mapped.initializeCustomer,
          initializePayment    |-> mapped.initializePayment,
          isInitializing       |-> mapped.isInitializing ]

\* memo(Component): the previous output is kept when the props are unchanged.
memo(prevProps, prevOutput, nextProps) ==
    IF nextProps = prevProps THEN prevOutput ELSE PaymentMethodComponent(nextProps)

(***************************************************************************)
(* The state: the props the parent passes, the checkout state, and what the *)
(* memoized selector rendered last.                                         *)
(***************************************************************************)
VARIABLES
    ownProps,       \* the PaymentMethodProps of the parent
    checkoutState,  \* the id whose payment is initializing, or NoMethod
    renderedProps,  \* the props of the last render of the selector
    output,         \* what the selector returned: an element or Null
    invoked         \* the callbacks the selector has called so far

vars == << ownProps, checkoutState, renderedProps, output, invoked >>

\* Descriptors the parent switches to when another method is selected.
SelectableMethods ==
    { [ id |-> "credit_card", gateway |-> PaymentMethodId.Checkoutcom,
        type |-> PaymentMethodProviderType.Api,
        method |-> PaymentMethodType.CreditCard ],
      [ id |-> PaymentMethodId.PaypalPaymentsPro, gateway |-> Undefined,
        type |-> PaymentMethodProviderType.Hosted,
        method |-> PaymentMethodType.Paypal ],
      [ id |-> PaymentMethodId.Braintree, gateway |-> Undefined,
        type |-> PaymentMethodProviderType.Api,
        method |-> PaymentMethodType.CreditCard ] }

\* Before the mount nothing has been rendered.
NotMounted == [ type |-> "not mounted" ]

\* The component is constructed with the parent's props; no payment is
\* initializing yet (the rendered child starts the initialization).
Init ==
    /\ ownProps \in PaymentMethodProps
    /\ checkoutState = NoMethod
    /\ renderedProps = NotMounted
    /\ output = NotMounted
    /\ invoked = {}

\* The mount: the first render of the selector.
Mount ==
    LET props == withCheckout(checkoutService, checkoutState, ownProps) IN
    /\ output = NotMounted
    /\ renderedProps' = props
    /\ output' = PaymentMethodComponent(props)
    /\ invoked' = invoked \cup CallbacksInvoked(props)
    /\ UNCHANGED << ownProps, checkoutState >>

\* One more render of the wrapped, memoized selector.
Render(nextOwn, nextState) ==
    LET nextProps == withCheckout(checkoutService, nextState, nextOwn) IN
    /\ output # NotMounted
    /\ ownProps' = nextOwn
    /\ checkoutState' = nextState
    /\ renderedProps' = nextProps
    /\ output' = memo(renderedProps, output, nextProps)
    /\ invoked' = IF nextProps = renderedProps
                     THEN invoked
                     ELSE invoked \cup CallbacksInvoked(nextProps)

\* The parent renders again with the same descriptor and other props.
ParentRender ==
    \E e \in BOOLEAN, ms \in BOOLEAN,
       err \in { Undefined, "onUnhandledError" }, sub \in { Undefined, "submitForm" } :
        Render([ ownProps EXCEPT !.isEmbedded = e, !.isUsingMultiShipping = ms,
                                 !.onUnhandledError = err, !.submitForm = sub ],
               checkoutState)

\* The parent renders another payment method.
SelectMethod ==
    \E m \in SelectableMethods :
        /\ m # ownProps.method
        /\ Render([ ownProps EXCEPT !.method = m ], checkoutState)

\* The checkout state's initializing status changes.
StatusChange ==
    \E s \in { NoMethod } \cup InitializingIds :
        /\ s # checkoutState
        /\ Render(ownProps, s)

Next == Mount \/ ParentRender \/ SelectMethod \/ StatusChange

Spec == Init /\ [][Next]_vars

(***************************************************************************)
(* Properties.  `descriptor` is the descriptor of the render the state shows;   *)
(* `Rendered` says that the selector has returned.                          *)
(***************************************************************************)
descriptor == ownProps.method

Rendered == output # NotMounted

\* C1: every render of every descriptor ends in exactly one outcome, which
\* is one element of one payment-method component or null; never an error,
\* never anything else.
C1_Total ==
    Rendered =>
        \/ output = Null
        \/ /\ DOMAIN output = { "type", "props" }
           /\ output.type \in ComponentTypes

\* C1 witness: both outcomes are met: here the "no render" one, for a
\* descriptor no test of the chain matches.
C1_Witness ==
    /\ output = Null
    /\ descriptor.id \in OtherIds
    /\ descriptor.gateway = Undefined

\* C2: a descriptor of type PPSDK selects PPSDKPaymentMethod, whatever its
\* id, gateway and method are.
C2_PPSDKFirst ==
    (Rendered /\ descriptor.type = PaymentMethodProviderType.PPSDK)
        => output.type = "PPSDKPaymentMethod"

\* C2 witness: a PPSDK descriptor that also matches later tests (the
\* SquareV2 id, the StripeV3 gateway, the credit-card method).
C2_Witness ==
    /\ output.type = "PPSDKPaymentMethod"
    /\ descriptor.id = PaymentMethodId.SquareV2
    /\ descriptor.gateway = PaymentMethodId.StripeV3
    /\ descriptor.method = PaymentMethodType.CreditCard

\* The ids whose own test comes before the test of the Checkoutcom gateway.
IdsBeforeCheckoutcom ==
    { PaymentMethodId.SquareV2, PaymentMethodId.AmazonPay,
      PaymentMethodId.CCAvenueMars, PaymentMethodId.ChasePay }

\* C3 as claimed: with the Checkoutcom gateway, the ids "credit_card" and
\* "card" select HostedCreditCardPaymentMethod and every other id selects
\* HostedPaymentMethod.
C3_Original ==
    (Rendered /\ descriptor.gateway = PaymentMethodId.Checkoutcom)
        => output.type = IF descriptor.id \in { "credit_card", "card" }
                            THEN "HostedCreditCardPaymentMethod"
                            ELSE "HostedPaymentMethod"

\* C3 as amended: with the Checkoutcom gateway and a type other than PPSDK,
\* the ids "credit_card" and "card" select HostedCreditCardPaymentMethod and
\* every other id select HostedPaymentMethod, except SquareV2, AmazonPay,
\* CCAvenueMars and ChasePay, whose own tests come first.
C3_Checkoutcom ==
    ( /\ Rendered
      /\ descriptor.gateway = PaymentMethodId.Checkoutcom
      /\ descriptor.type # PaymentMethodProviderType.PPSDK
      /\ descriptor.id \notin IdsBeforeCheckoutcom )
        => output.type = IF descriptor.id \in { "credit_card", "card" }
                            THEN "HostedCreditCardPaymentMethod"
                            ELSE "HostedPaymentMethod"

\* C3 witness: the id "card" with the Checkoutcom gateway, rendered as the
\* hosted credit card form although its method is not credit-card.
C3_Witness ==
    /\ output.type = "HostedCreditCardPaymentMethod"
    /\ descriptor.gateway = PaymentMethodId.Checkoutcom
    /\ descriptor.id = "card"
    /\ descriptor.method # PaymentMethodType.CreditCard
    /\ descriptor.type # PaymentMethodProviderType.Api

(***************************************************************************)
(* An ordered chain of rules, first match wins: the form in which the       *)
(* specification states the selector.                                       *)
(***************************************************************************)
Rule(hit, type) == [ hit |-> hit, type |-> type ]

FirstHit(rules) ==
    CHOOSE i \in 1..Len(rules) :
        rules[i].hit /\ \A j \in 1..(i - 1) : ~rules[j].hit

FirstMatch(rules) == rules[FirstHit(rules)].type

RulePPSDK(m) ==
    << Rule(m.type = PaymentMethodProviderType.PPSDK, "PPSDKPaymentMethod") >>

RulesSquareToChasePay(m) ==
    << Rule(m.id = PaymentMethodId.SquareV2, "SquarePaymentMethod"),
       Rule(m.gateway = PaymentMethodId.StripeV3, "StripePaymentMethod"),
       Rule(m.gateway = PaymentMethodId.StripeUPE, "StripeUPEPaymentMethod"),
       Rule(m.id = PaymentMethodId.AmazonPay, "AmazonPayV2PaymentMethod"),
       Rule(m.id = PaymentMethodId.CCAvenueMars, "CCAvenueMarsPaymentMethod"),
       Rule(m.id = PaymentMethodId.ChasePay, "ChasePayPaymentMethod") >>

RulesMasterpassToWorldpay(m) ==
    << Rule(m.id = PaymentMethodId.Masterpass, "MasterpassPaymentMethod"),
       Rule(m.id = PaymentMethodId.Braintree, "BraintreeCreditCardPaymentMethod"),
       Rule(m.id = PaymentMethodId.PaypalCommerceCreditCards,
            "PaypalCommerceCreditCardPaymentMethod"),
       Rule(m.id = PaymentMethodId.PaypalExpress, "PaypalExpressPaymentMethod"),
       Rule(m.id = PaymentMethodId.PaypalPaymentsPro
                /\ m.type # PaymentMethodProviderType.Hosted,
            "PaypalPaymentsProPaymentMethod"),
       Rule(m.id = PaymentMethodId.Moneris, "MonerisPaymentMethod"),
       Rule(m.id = PaymentMethodId.WorldpayAccess, "WorldpayCreditCardPaymentMethod") >>

RulesCheckoutcom(m) ==
    << Rule(m.gateway = PaymentMethodId.Checkoutcom /\ m.id \in { "credit_card", "card" },
            "HostedCreditCardPaymentMethod"),
       Rule(m.gateway = PaymentMethodId.Checkoutcom, "HostedPaymentMethod") >>

RuleHosted(m) ==
    << Rule(\/ m.gateway \in { PaymentMethodId.Afterpay, PaymentMethodId.Clearpay }
            \/ m.id \in { PaymentMethodId.BraintreeVenmo, PaymentMethodId.Humm,
                          PaymentMethodId.Laybuy, PaymentMethodId.Quadpay,
                          PaymentMethodId.Sezzle, PaymentMethodId.Zip }
            \/ m.method \in { PaymentMethodType.Paypal, PaymentMethodType.PaypalCredit }
            \/ m.type = PaymentMethodProviderType.Hosted,
            "HostedPaymentMethod") >>

RuleOpy(m) == << Rule(m.id = PaymentMethodId.Opy, "OpyPaymentMethod") >>

RulesFallback(m) ==
    << Rule(\/ m.method = PaymentMethodType.CreditCard
            \/ m.type = PaymentMethodProviderType.Api,
            "HostedCreditCardPaymentMethod"),
       Rule(TRUE, Null.type) >>

\* The seven steps in the order the specification lists them: every
\* specific identifier before the Checkoutcom gateway.
SevenStepChain(m) ==
    RulePPSDK(m) \o RulesSquareToChasePay(m) \o RulesMasterpassToWorldpay(m)
        \o RulesCheckoutcom(m) \o RuleHosted(m) \o RuleOpy(m) \o RulesFallback(m)

\* The same rules with the Checkoutcom gateway between ChasePay and
\* Masterpass.
InterleavedChain(m) ==
    RulePPSDK(m) \o RulesSquareToChasePay(m) \o RulesCheckoutcom(m)
        \o RulesMasterpassToWorldpay(m) \o RuleHosted(m) \o RuleOpy(m)
        \o RulesFallback(m)

\* C4 as claimed: the selector returns what the seven-step chain returns,
\* evaluated in the listed order.
C4_Original ==
    Rendered => output.type = FirstMatch(SevenStepChain(descriptor))

\* C4 as amended: the selector returns what the first matching rule of this
\* chain returns: PPSDK type; the specific identifiers SquareV2, StripeV3,
\* StripeUPE, AmazonPay, CCAvenueMars, ChasePay; the Checkoutcom gateway
\* with its nested decision; the specific identifiers Masterpass, Braintree,
\* PaypalCommerceCreditCards, PaypalExpress, PaypalPaymentsPro (only when
\* the type is not Hosted), Moneris, WorldpayAccess; the hosted disjunction;
\* the Opy id; the credit-card / API fallback; null.
C4_Chain ==
    Rendered => output.type = FirstMatch(InterleavedChain(descriptor))

\* C4 witness: a descriptor on which the two orders differ: the Masterpass
\* id with the Checkoutcom gateway is rendered by HostedPaymentMethod.
C4_Witness ==
    /\ output.type = "HostedPaymentMethod"
    /\ descriptor.id = PaymentMethodId.Masterpass
    /\ descriptor.gateway = PaymentMethodId.Checkoutcom
    /\ descriptor.type = PaymentMethodProviderType.Api

\* The ids and gateways that a test of the chain names.
IdsOfSpecificRules ==
    IdsBeforeCheckoutcom \cup
    { PaymentMethodId.Masterpass, PaymentMethodId.Braintree,
      PaymentMethodId.PaypalCommerceCreditCards, PaymentMethodId.PaypalExpress,
      PaymentMethodId.PaypalPaymentsPro, PaymentMethodId.Moneris,
      PaymentMethodId.WorldpayAccess }

IdsOfHostedRule ==
    { PaymentMethodId.BraintreeVenmo, PaymentMethodId.Humm, PaymentMethodId.Laybuy,
      PaymentMethodId.Quadpay, PaymentMethodId.Sezzle, PaymentMethodId.Zip }

GatewaysOfSpecificRules ==
    { PaymentMethodId.StripeV3, PaymentMethodId.StripeUPE, PaymentMethodId.Checkoutcom }

GatewaysOfHostedRule == { PaymentMethodId.Afterpay, PaymentMethodId.Clearpay }

\* id and gateway match none of the id / gateway tests of the chain
NoIdentifierMatches(m) ==
    /\ m.id \notin IdsOfSpecificRules \cup IdsOfHostedRule \cup { PaymentMethodId.Opy }
    /\ m.gateway \notin GatewaysOfSpecificRules \cup GatewaysOfHostedRule

\* C5 as claimed: the method PaypalCredit, with an id and a gateway that
\* match no id / gateway rule, selects HostedPaymentMethod.
C5_Original ==
    ( /\ Rendered
      /\ descriptor.method = PaymentMethodType.PaypalCredit
      /\ NoIdentifierMatches(descriptor) )
        => output.type = "HostedPaymentMethod"

\* C5 as amended: the method PaypalCredit, with a type other than PPSDK and
\* an id and a gateway that match no id / gateway rule, selects
\* HostedPaymentMethod (and so never the HostedCreditCardPaymentMethod
\* fallback).
C5_PaypalCredit ==
    ( /\ Rendered
      /\ descriptor.method = PaymentMethodType.PaypalCredit
      /\ descriptor.type # PaymentMethodProviderType.PPSDK
      /\ NoIdentifierMatches(descriptor) )
        => output.type = "HostedPaymentMethod"

\* C5 witness: a PaypalCredit descriptor of type Api, which the fallback
\* would render as a credit card form, is rendered by HostedPaymentMethod.
C5_Witness ==
    /\ output.type = "HostedPaymentMethod"
    /\ descriptor.method = PaymentMethodType.PaypalCredit
    /\ descriptor.type = PaymentMethodProviderType.Api
    /\ NoIdentifierMatches(descriptor)

\* C6: a descriptor that matches none of the named rules, whose method is
\* not CreditCard and whose type is not Api, renders nothing.
C6_NoRender ==
    ( /\ Rendered
      /\ descriptor.type \notin { PaymentMethodProviderType.PPSDK,
                                  PaymentMethodProviderType.Hosted,
                                  PaymentMethodProviderType.Api }
      /\ descriptor.method \notin { PaymentMethodType.Paypal,
                                    PaymentMethodType.PaypalCredit,
                                    PaymentMethodType.CreditCard }
      /\ NoIdentifierMatches(descriptor) )
        => output = Null

\* C6 witness: the literal id "card" outside the Checkoutcom gateway, with
\* no type or method any test names, renders nothing.
C6_Witness ==
    /\ output = Null
    /\ descriptor.id = "card"
    /\ descriptor.gateway \in OtherGateways
    /\ descriptor.type \notin { PaymentMethodProviderType.PPSDK,
                                PaymentMethodProviderType.Hosted,
                                PaymentMethodProviderType.Api }
    /\ descriptor.method \notin { PaymentMethodType.Paypal,
                                  PaymentMethodType.PaypalCredit,
                                  PaymentMethodType.CreditCard }

\* C7: when the method is CreditCard and the id is one a specific id rule
\* names (or Opy), the component of the first rule of the chain that the
\* descriptor matches is selected; that rule is never the fallback, and the
\* component is not HostedCreditCardPaymentMethod.
C7_EarlierRuleWins ==
    ( /\ Rendered
      /\ descriptor.method = PaymentMethodType.CreditCard
      /\ descriptor.id \in IdsOfSpecificRules \cup { PaymentMethodId.Opy } )
        => LET rules == InterleavedChain(descriptor)
               i == FirstHit(rules)
           IN  /\ output.type = rules[i].type
               /\ i < Len(rules) - 1
               /\ output.type # "HostedCreditCardPaymentMethod"

\* C7 witness: a credit-card descriptor of type Api with the Moneris id is
\* rendered by MonerisPaymentMethod.
C7_Witness ==
    /\ output.type = "MonerisPaymentMethod"
    /\ descriptor.method = PaymentMethodType.CreditCard
    /\ descriptor.type = PaymentMethodProviderType.Api
    /\ descriptor.id = PaymentMethodId.Moneris

\* The selector applied to a descriptor alone: no flag set, no optional
\* callback given, nothing initializing.
DescriptorAlone(m) ==
    [ method               |-> m,
      isEmbedded           |-> FALSE,
      isUsingMultiShipping |-> FALSE,
      onUnhandledError     |-> Undefined,
      submitForm           |-> Undefined,
      deinitializeCustomer |-> Undefined,
      deinitializePayment  |-> Undefined,
      initializeCustomer   |-> Undefined,
      initializePayment    |-> Undefined,
      isInitializing       |-> FALSE ]

\* C8: the selected component depends on the four descriptor fields only.
\* After every sequence of renders, and whatever isInitializing, isEmbedded,
\* isUsingMultiShipping and the callbacks are, the selection is the one the
\* descriptor alone gets (so any two renders that agree on the descriptor
\* agree on the selection), and a render with the same descriptor as the
\* render before it keeps the selection.
C8_DescriptorOnly ==
    /\ [](Rendered => output.type = PaymentMethodComponent(DescriptorAlone(descriptor)).type)
    /\ [][ (Rendered /\ ownProps'.method = ownProps.method)
              => output'.type = output.type ]_vars

\* C8 witness: a render after the initializing status, both flags and both
\* optional callbacks have changed since the mount.
C8_Witness ==
    /\ output.type = "BraintreeCreditCardPaymentMethod"
    /\ renderedProps.isInitializing
    /\ renderedProps.isEmbedded
    /\ renderedProps.isUsingMultiShipping
    /\ renderedProps.onUnhandledError = Undefined
    /\ renderedProps.submitForm # Undefined

\* C9: the selected component receives exactly the props the selector was
\* given: the parent's five props as they are, the checkout service's four
\* lifecycle methods as they are, and isInitializing =
\* isInitializingPayment(method.id); the selector calls none of the callbacks.
C9_PropsForwarded ==
    (Rendered /\ output # Null)
        => /\ output.props = renderedProps
           /\ output.props =
                [ method               |-> ownProps.method,
                  isEmbedded           |-> ownProps.isEmbedded,
                  isUsingMultiShipping |-> ownProps.isUsingMultiShipping,
                  onUnhandledError     |-> ownProps.onUnhandledError,
                  submitForm           |-> ownProps.submitForm,
                  deinitializeCustomer |-> "checkoutService.deinitializeCustomer",
                  deinitializePayment  |-> "checkoutService.deinitializePayment",
                  initializeCustomer   |-> "checkoutService.initializeCustomer",
                  initializePayment    |-> "checkoutService.initializePayment",
                  isInitializing       |-> (checkoutState = ownProps.method.id) ]
           /\ invoked = {}

\* C9 witness: the payment of another method is initializing, so the
\* rendered component is given isInitializing = false.
C9_Witness ==
    /\ output.type = "HostedCreditCardPaymentMethod"
    /\ checkoutState = PaymentMethodId.Braintree
    /\ descriptor.id = "card"
    /\ ~output.props.isInitializing
    /\ output.props.submitForm = "submitForm"

\* C10: (a) a descriptor with the PaypalPaymentsPro id that no earlier rule
\* matches selects PaypalPaymentsProPaymentMethod if and only if its type is
\* not Hosted, and HostedPaymentMethod when it is Hosted; (b) a descriptor
\* with the Opy id selects OpyPaymentMethod only when its type is not
\* Hosted, its method neither Paypal nor PaypalCredit and its gateway
\* neither Afterpay nor Clearpay.
C10_GuardedRules ==
    /\ ( /\ Rendered
         /\ descriptor.id = PaymentMethodId.PaypalPaymentsPro
         /\ descriptor.type # PaymentMethodProviderType.PPSDK
         /\ descriptor.gateway \notin GatewaysOfSpecificRules )
          => /\ output.type = "PaypalPaymentsProPaymentMethod"
                    <=> descriptor.type # PaymentMethodProviderType.Hosted
             /\ descriptor.type = PaymentMethodProviderType.Hosted
                    => output.type = "HostedPaymentMethod"
    /\ ( /\ Rendered
         /\ descriptor.id = PaymentMethodId.Opy
         /\ output.type = "OpyPaymentMethod" )
          => /\ descriptor.type # PaymentMethodProviderType.Hosted
             /\ descriptor.method \notin { PaymentMethodType.Paypal,
                                           PaymentMethodType.PaypalCredit }
             /\ descriptor.gateway \notin GatewaysOfHostedRule

\* C10 witness: the PaypalPaymentsPro id with the type Hosted and the
\* method credit-card is rendered by HostedPaymentMethod.
C10_Witness ==
    /\ output.type = "HostedPaymentMethod"
    /\ descriptor.id = PaymentMethodId.PaypalPaymentsPro
    /\ descriptor.type = PaymentMethodProviderType.Hosted
    /\ descriptor.method = PaymentMethodType.CreditCard
    /\ descriptor.gateway = Undefined

====
